---- MODULE Spec2Model ----
(***************************************************************************)
(* js/src/vm/NumericConversions.h: the ECMAScript / WebIDL conversions of  *)
(* an IEEE-754 double to a 32- or 64-bit integer (ToInt32, ToUint32,       *)
(* ToInt64, ToUint64), the ARM assembly version of ToInt32, and ToInteger. *)
(*                                                                         *)
(* TLC's integers are 32 bits wide, so a machine word is modelled as the   *)
(* set of the positions of its 1 bits: a W-bit word is a subset of         *)
(* 0..W-1, bit 0 the least significant.  A mathematical integer (the value *)
(* of a signed expression before it is stored) is a two's-complement word  *)
(* of ZWidth bits, wide enough that no operation of the code wraps in it.  *)
(***************************************************************************)
EXTENDS Integers, FiniteSets, TLC

(* ----------------------------- bounds ---------------------------------- *)

\* Decoded exponents -ExpBelow .. ExpAbove are all drawn, besides ExtraExps.
ExpBelow == 2
ExpAbove == 118

(* ------------------------ words as bit sets ---------------------------- *)

Word(W) == 0 .. (W - 1)

Bit(a, i) == IF i \in a THEN 1 ELSE 0

\* The word of a small non-negative number (an immediate operand).
BitsOf(n) == {i \in 0 .. 30 : (n \div (2 ^ i)) % 2 = 1}

\* The number held by a short word (an exponent field, a shift amount).
RECURSIVE ValueOf(_)
ValueOf(a) ==
    IF a = {} THEN 0
    ELSE LET i == CHOOSE j \in a : TRUE
         IN (2 ^ i) + ValueOf(a \ {i})

One == {0}

Trunc(W, a) == a \cap Word(W)

Shl(W, a, k) == {i + k : i \in a} \cap Word(W)

Shr(W, a, k) == {i - k : i \in a} \cap Word(W)

Not(W, a) == Word(W) \ a

RECURSIVE AddFrom(_, _, _, _, _)
AddFrom(W, a, b, i, c) ==
    IF i >= W THEN {}
    ELSE LET s == Bit(a, i) + Bit(b, i) + c
         IN (IF s % 2 = 1 THEN {i} ELSE {}) \cup AddFrom(W, a, b, i + 1, s \div 2)

\* a + b modulo 2^W
Add(W, a, b) == AddFrom(W, a, b, 0, 0)

\* a - b modulo 2^W
Sub(W, a, b) == AddFrom(W, a, Not(W, b), 0, 1)

\* a <= b, both unsigned
ULeq(a, b) ==
    \/ a = b
    \/ \E i \in b \ a : \A j \in a \ b : j < i

(* ------------------------ mathematical integers ------------------------ *)

ZWidth == 64 + 2

\* The value of an unsigned word.
ZOfUnsigned(a) == a

\* The value of a W-bit word read as two's complement.
ZOfSigned(W, a) == IF (W - 1) \in a THEN a \cup (W .. (ZWidth - 1)) ELSE a

ZAdd(x, y) == Add(ZWidth, x, y)

ZSub(x, y) == Sub(ZWidth, x, y)

ZNeg(x) == Sub(ZWidth, {}, x)

\* x lies in [-2^(W-1), 2^(W-1) - 1]
InSignedRange(W, x) == x = ZOfSigned(W, Trunc(W, x))

(* --------------------------- the double -------------------------------- *)

DoubleExponentShift == 52
ExponentBias == 1023
DoubleBits == 64

SignBit == {DoubleBits - 1}
ExponentBits == DoubleExponentShift .. (DoubleBits - 2)
SignificandBits == Word(DoubleExponentShift)

BiasedExponent(bits) == ValueOf(Shr(DoubleBits, bits \cap ExponentBits, DoubleExponentShift))

IsNegative(bits) == SignBit \subseteq bits

Mantissa(bits) == bits \cap SignificandBits

ExponentFieldMax == ValueOf(Shr(DoubleBits, ExponentBits, DoubleExponentShift))

IsFinite(bits) == BiasedExponent(bits) # ExponentFieldMax

IsNaN(bits) == BiasedExponent(bits) = ExponentFieldMax /\ Mantissa(bits) # {}

IsInfinite(bits) == BiasedExponent(bits) = ExponentFieldMax /\ Mantissa(bits) = {}

IsZero(bits) == bits \ SignBit = {}

MakeDouble(neg, biased, mant) ==
    (IF neg THEN SignBit ELSE {})
        \cup Shl(DoubleBits, BitsOf(biased), DoubleExponentShift)
        \cup mant

(* ------------------------- detail::ToUintWidth ------------------------- *)

NoOps == [safecast |-> {}, shl |-> {}, shr |-> {}, one |-> {}]

\* int_fast16_t exp = ((bits & ExponentBits) >> ExponentShift) - ExponentBias
DecodedExponent(bits) == BiasedExponent(bits) - ExponentBias

\* if (exponent >= DoubleExponentShift + ResultWidth) return 0;
TooLargeOffByOne(W, exponent) == exponent > DoubleExponentShift + W
TooLarge(W, exponent) == exponent >= DoubleExponentShift + W

\* result = exponent > DoubleExponentShift ? ResultType(bits << ...) : ResultType(bits >> ...)
ShiftsLeft(exponent) == exponent > DoubleExponentShift

ShiftSignificand(W, bits, exponent) ==
    IF ShiftsLeft(exponent)
    THEN Trunc(W, Shl(DoubleBits, bits, exponent - DoubleExponentShift))
    ELSE Trunc(W, Shr(DoubleBits, bits, DoubleExponentShift - exponent))

\* if (exponent < ResultWidth) { implicitOne = 1 << exponent;
\*     result &= implicitOne - 1; result += implicitOne; }
HasImplicitOne(W, exponent) == exponent < W

FixImplicitOneNoMask(W, result, exponent) ==
    IF HasImplicitOne(W, exponent)
    THEN Add(W, result, Shl(W, One, exponent))
    ELSE result
FixImplicitOne(W, result, exponent) ==
    IF HasImplicitOne(W, exponent)
    THEN LET implicitOne == Shl(W, One, exponent)
         IN Add(W, result \cap Sub(W, implicitOne, One), implicitOne)
    ELSE result

\* return (bits & SignBit) ? ~result + 1 : result;
ApplySign(W, bits, result) ==
    IF bits \cap SignBit # {} THEN Add(W, Not(W, result), One) ELSE result

\* The function from the first guard on, exp being the decoded exponent: its
\* return value and the operands of the operations it executed (the SafeCast,
\* the 64-bit shifts, the W-bit shift of 1).
ToUintWidthFrom(W, bits, exp) ==
    IF exp < 0
    THEN [ret |-> {}, ops |-> NoOps]
    ELSE IF TooLarge(W, exp)
    THEN [ret |-> {}, ops |-> [NoOps EXCEPT !.safecast = {exp}]]
    ELSE [ret |-> ApplySign(W, bits,
                       FixImplicitOne(W, ShiftSignificand(W, bits, exp), exp)),
          ops |-> [safecast |-> {exp},
                   shl |-> IF ShiftsLeft(exp) THEN {exp - DoubleExponentShift} ELSE {},
                   shr |-> IF ShiftsLeft(exp) THEN {} ELSE {DoubleExponentShift - exp},
                   one |-> IF HasImplicitOne(W, exp) THEN {exp} ELSE {}]]

ToUintWidthRun(W, bits) == ToUintWidthFrom(W, bits, DecodedExponent(bits))

ToUintWidth(W, bits) == ToUintWidthRun(W, bits).ret

(* -------------------------- detail::ToIntWidth ------------------------- *)

Value(v) == [kind |-> "value", v |-> v]

\* The call did not return: the build aborts on signed overflow.
Trap == [kind |-> "trap", v |-> {}]

\* The widths the header instantiates the templates at.
Widths == {32, 64}

\* const ResultType MaxValue = (1ULL << (CHAR_BIT * sizeof(ResultType) - 1)) - 1;
\* const ResultType MinValue = -MaxValue - 1;
LimitsOf(W) ==
    LET max == Trunc(W, Sub(DoubleBits, Shl(DoubleBits, One, W - 1), One))
    IN [max |-> max, min |-> ZSub(ZNeg(ZOfUnsigned(max)), One)]

SignedLimits == (32 :> LimitsOf(32)) @@ (64 :> LimitsOf(64))

MaxValue(W) == SignedLimits[W].max

MinValue(W) == SignedLimits[W].min

\* static_cast<ResultType>(x) of an unsigned W-bit x: the value itself when it is
\* at most MaxValue, else implementation-defined; every supported compiler
\* reduces modulo 2^W.
CastToSigned(W, x) == ZOfSigned(W, x)

\* The signed W-bit object a wrapping build stores for the value x.
WrapSigned(W, x) == ZOfSigned(W, Trunc(W, x))

\* The function after the call of ToUintWidth, whose run is ur: the value of
\* each step of (MinValue + static_cast<ResultType>(u - MaxValue)) - 1 as the
\* abstract machine computes it, and what a wrapping build returns.
ToIntWidthFrom(W, ur) ==
    IF ULeq(ur.ret, MaxValue(W))
    THEN [ops |-> ur.ops, u |-> ur.ret, large |-> FALSE, diff |-> {}, sum |-> {},
          fin |-> {}, ret |-> CastToSigned(W, ur.ret)]
    ELSE LET Last(diff, sum, fin) ==
                 [ops |-> ur.ops, u |-> ur.ret, large |-> TRUE,
                  diff |-> ZOfUnsigned(diff), sum |-> sum, fin |-> fin,
                  ret |-> WrapSigned(W, fin)]
             Minus1(diff, sum) == Last(diff, sum, ZSub(WrapSigned(W, sum), One))
             PlusMin(diff) == Minus1(diff, ZAdd(MinValue(W), CastToSigned(W, diff)))
         IN PlusMin(Sub(W, ur.ret, MaxValue(W)))

ToIntWidthRun(W, bits) == ToIntWidthFrom(W, ToUintWidthRun(W, bits))

\* Signed overflow is undefined: a build either wraps or traps (-ftrapv, a
\* sanitizer).  Without overflow the value is the only outcome.
Outcomes(W, r) ==
    IF r.large /\ ~(InSignedRange(W, r.sum) /\ InSignedRange(W, r.fin))
    THEN {Value(r.ret), Trap}
    ELSE {Value(r.ret)}

ToIntWidthOutcomes(W, bits) == Outcomes(W, ToIntWidthRun(W, bits))

(* ----------------------- ToInt32, the ARM assembly --------------------- *)

RegBits == 32

\* %Q4 and %R4: the low and the high word of the double.
LowWord(bits) == Trunc(RegBits, bits)
HighWord(bits) == Shr(DoubleBits, bits, RegBits)

\* LSL / LSR by an immediate, or by a register's bottom byte: 32 or more gives 0.
LSL(r, n) == Shl(RegBits, r, n)
LSR(r, n) == Shr(RegBits, r, n)
ASR31(r) == IF (RegBits - 1) \in r THEN Word(RegBits) ELSE {}
BottomByte(r) == ValueOf(r \cap Word(8))
BIC(r, m) == r \ m
ORR(r, m) == r \cup m
EOR(r, m) == (r \ m) \cup (m \ r)
ADD(r, m) == Add(RegBits, r, m)
SUB(r, m) == Sub(RegBits, r, m)
RSB(r, m) == Sub(RegBits, m, r)
Minus(r) == (RegBits - 1) \in r

\* bic %2, %3, #0xff ; orr %3, %3, %2, LSR #3
FoldShift(r3) == ORR(r3, LSR(BIC(r3, Word(8)), 3))

\* The lower mantissa: %Q4 shifted left by exp-52, or right by 52-exp.
ArmLowerFrom(q4, exp, r3) ==
    IF Minus(r3)
    THEN LSR(q4, BottomByte(RSB(exp, BitsOf(52))))
    ELSE LSL(q4, BottomByte(FoldShift(r3)))

ArmLower(q4, exp) == ArmLowerFrom(q4, exp, SUB(exp, BitsOf(52)))

\* The upper mantissa: %R4 LSL #11 shifted left by exp-31, or right by 31-exp.
ArmUpperFrom(r1, r3) ==
    IF Minus(r3)
    THEN LSR(r1, BottomByte(RSB(r3, BitsOf(0))))
    ELSE LSL(r1, BottomByte(FoldShift(r3)))

ArmUpper(r4, exp) == ArmUpperFrom(LSL(r4, 11), SUB(exp, BitsOf(31)))

\* The asm block from "bmi 8f" on: r4 is %R4 with the implicit bit set, exp
\* the decoded exponent in %1; the value is the register %0 at label 9.
ToInt32ArmFrom(bits, r4, exp) ==
    IF Minus(exp)
    THEN {}
    ELSE ADD(EOR(ORR(ArmLower(LowWord(bits), exp), ArmUpper(r4, exp)), ASR31(r4)),
             LSR(r4, 31))

\* The asm block of ToInt32.
ToInt32Arm(bits) ==
    ToInt32ArmFrom(bits,
                   ORR(HighWord(bits), {20}),
                   SUB(SUB(BIC(LSR(HighWord(bits), 20), {11}), BitsOf(255)), BitsOf(768)))

(* ------------------------------ ToInteger ------------------------------ *)

\* The fraction bits of a finite double with decoded exponent e in 0..51.
FractionBits(e) == Word(DoubleExponentShift - e)

\* d with its magnitude raised to the next integer (d finite, not integral,
\* decoded exponent e in 0..51): the carry may run into the exponent field.
NextMagnitude(bits, e) ==
    Add(DoubleBits, bits \ FractionBits(e), Shl(DoubleBits, One, DoubleExponentShift - e))

IsIntegralAt(bits, e) ==
    \/ IsZero(bits)
    \/ e >= DoubleExponentShift
    \/ e >= 0 /\ bits \cap FractionBits(e) = {}

IsIntegral(bits) == IsIntegralAt(bits, DecodedExponent(bits))

\* d rounded toward zero, resp. away from zero (d finite).
TowardZeroAt(bits, e) ==
    IF IsIntegralAt(bits, e) THEN bits
    ELSE IF e < 0 THEN bits \cap SignBit
    ELSE bits \ FractionBits(e)

TowardZero(bits) == TowardZeroAt(bits, DecodedExponent(bits))

AwayFromZeroAt(bits, e) ==
    IF IsIntegralAt(bits, e) THEN bits
    ELSE IF e < 0 THEN MakeDouble(IsNegative(bits), ExponentBias, {})
    ELSE NextMagnitude(bits, e)

AwayFromZero(bits) == AwayFromZeroAt(bits, DecodedExponent(bits))

\* floor and ceil of <math.h>, on finite doubles.
Floor(bits) == IF IsNegative(bits) THEN AwayFromZero(bits) ELSE TowardZero(bits)

\* ceil written as floor(d) + 1: right unless d is integral.  An integral d < 0
\* with decoded exponent at most 52 becomes d + 1; larger magnitudes are kept.
PlusOneAt(bits, e) ==
    IF ~IsIntegralAt(bits, e)
    THEN (IF IsNegative(bits) THEN TowardZeroAt(bits, e) ELSE AwayFromZeroAt(bits, e))
    ELSE IF IsNegative(bits) /\ ~IsZero(bits) /\ e <= DoubleExponentShift
    THEN IF Mantissa(bits) # {}
         THEN Sub(DoubleBits, bits, Shl(DoubleBits, One, DoubleExponentShift - e))
         ELSE IF e = 0 THEN {}
         ELSE MakeDouble(TRUE, ExponentBias + e - 1,
                         (DoubleExponentShift + 1 - e) .. (DoubleExponentShift - 1))
    ELSE bits
CeilAsFloorPlusOne(bits) == PlusOneAt(bits, DecodedExponent(bits))
Ceil(bits) == IF IsNegative(bits) THEN TowardZero(bits) ELSE AwayFromZero(bits)

\* if (d == 0) return d;
\* if (!IsFinite(d)) { if (IsNaN(d)) return 0; return d; }
\* return d < 0 ? ceil(d) : floor(d);
ToIntegerSwapped(bits) ==
    IF IsZero(bits) THEN bits
    ELSE IF ~IsFinite(bits) THEN (IF IsNaN(bits) THEN {} ELSE bits)
    ELSE IF IsNegative(bits) THEN Floor(bits) ELSE Ceil(bits)
ToIntegerFloorOnly(bits) ==
    IF IsZero(bits) THEN bits
    ELSE IF ~IsFinite(bits) THEN (IF IsNaN(bits) THEN {} ELSE bits)
    ELSE Floor(bits)
ToInteger(bits) ==
    IF IsZero(bits) THEN bits
    ELSE IF ~IsFinite(bits) THEN (IF IsNaN(bits) THEN {} ELSE bits)
    ELSE IF IsNegative(bits) THEN Ceil(bits) ELSE Floor(bits)

(* ------------------------------ the calls ------------------------------ *)

VARIABLES
    d,      \* the double the caller holds (its 64 bits)
    fn,     \* the operation called last, "none" before any call
    arg,    \* the argument of that call
    ret,    \* what the call returned: Value(word) or Trap
    trace   \* the operands and intermediate values of that call

vars == <<d, fn, arg, ret, trace>>

\* Decoded exponents outside -ExpBelow .. ExpAbove: zero and subnormals, the
\* smallest normal, the shift amounts the assembly folds (exp-31 and exp-52 at
\* 256, 512, 768), the largest finite exponent, infinity and NaN.
ExtraExps == {-1023, -1022, 287, 308, 543, 564, 799, 820, 1023, 1024}

Exps == ((0 - ExpBelow) .. ExpAbove) \cup ExtraExps

Run(lo, hi) == lo .. (hi - 1)

MantEdges == {0, 20, 32, 52}

Mantissas ==
    {Run(lo, hi) : lo, hi \in MantEdges}
        \cup {{b} : b \in {0, 20, 31, 51}}
        \cup {{0, 51}, {i \in Word(52) : i % 2 = 0}, {i \in Word(52) : i % 3 = 1 \/ i % 7 = 0}}

Inputs == {MakeDouble(s, e + ExponentBias, m) : s \in BOOLEAN, e \in Exps, m \in Mantissas}

NoInt == [u |-> {}, large |-> FALSE, diff |-> {}, sum |-> {}, fin |-> {}]

Init ==
    /\ d \in Inputs
    /\ fn = "none"
    /\ arg = d
    /\ ret = Value({})
    /\ trace = [ops |-> NoOps, int |-> NoInt]

CallUnsigned(name, W) ==
    /\ fn = "none"
    /\ fn' = name
    /\ arg' = d
    /\ \E r \in {ToUintWidthRun(W, d)} :
          /\ ret' = Value(r.ret)
          /\ trace' = [ops |-> r.ops, int |-> NoInt]
    /\ UNCHANGED d

CallSigned(name, W) ==
    /\ fn = "none"
    /\ fn' = name
    /\ arg' = d
    /\ \E r \in {ToIntWidthRun(W, d)} :
          /\ ret' \in Outcomes(W, r)
          /\ trace' = [ops |-> r.ops,
                       int |-> [u |-> r.u, large |-> r.large, diff |-> r.diff,
                                sum |-> r.sum, fin |-> r.fin]]
    /\ UNCHANGED d

\* ToInt32, the portable build
ToInt32 == CallSigned("ToInt32", 32)

\* ToInt32, the build for ARM with GCC
ToInt32OnArm ==
    /\ fn = "none"
    /\ fn' = "ToInt32Arm"
    /\ arg' = d
    /\ ret' = Value(ZOfSigned(RegBits, ToInt32Arm(d)))
    /\ trace' = [ops |-> NoOps, int |-> NoInt]
    /\ UNCHANGED d

ToUint32 == CallUnsigned("ToUint32", 32)

ToInt64 == CallSigned("ToInt64", 64)

ToUint64 == CallUnsigned("ToUint64", 64)

CallToInteger ==
    /\ fn = "none"
    /\ fn' = "ToInteger"
    /\ arg' = d
    /\ ret' = Value(ToInteger(d))
    /\ trace' = [ops |-> NoOps, int |-> NoInt]
    /\ UNCHANGED d

\* The caller passes the result of ToInteger to ToInteger again.
CallToIntegerAgain ==
    /\ fn = "ToInteger"
    /\ fn' = "ToIntegerAgain"
    /\ arg' = ret.v
    /\ ret' = Value(ToInteger(ret.v))
    /\ UNCHANGED <<d, trace>>

Next ==
    \/ ToInt32
    \/ ToInt32OnArm
    \/ ToUint32
    \/ ToInt64
    \/ ToUint64
    \/ CallToInteger
    \/ CallToIntegerAgain

Spec == Init /\ [][Next]_vars

(* --------------------- the values the claims refer to ------------------ *)

Unsigned == {"ToUint32", "ToUint64"}
Signed == {"ToInt32", "ToInt64"}

WidthOf(f) == IF f \in {"ToInt32", "ToUint32", "ToInt32Arm"} THEN 32 ELSE 64

\* floor(|d|) of a finite d, as an unbounded natural number: the significand
\* 2^52 + mantissa scaled by 2^(e - 52); a zero or subnormal is below 1.
ScaledSignificand(bits, e) ==
    {j \in {i + e - DoubleExponentShift : i \in Mantissa(bits) \cup {DoubleExponentShift}} : j >= 0}

FloorAbs(bits) ==
    IF BiasedExponent(bits) = 0 THEN {}
    ELSE ScaledSignificand(bits, DecodedExponent(bits))

\* r is the value in [0, 2^W) congruent modulo 2^W to sign * m.
Congruent(W, r, neg, m) ==
    /\ r \subseteq Word(W)
    /\ IF neg THEN Add(W, r, Trunc(W, m)) = {} ELSE r = Trunc(W, m)

\* sign(d) * floor(|d|) as a mathematical integer, when it fits 32 bits.
FitsInt32(bits) ==
    /\ IsFinite(bits)
    /\ FloorAbs(bits) \subseteq Word(32)
    /\ InSignedRange(32, IF IsNegative(bits) THEN ZNeg(FloorAbs(bits)) ELSE FloorAbs(bits))

Truncation(bits) == IF IsNegative(bits) THEN ZNeg(FloorAbs(bits)) ELSE FloorAbs(bits)

\* u read as a W-bit two's-complement number: u, or u - 2^W.
Reinterpreted(W, u) == IF ULeq(u, Word(W - 1)) THEN u ELSE ZSub(u, {W})

Highest(m) == CHOOSE i \in m : \A j \in m : j <= i

\* The double of sign neg and magnitude m, an integer of at most 53
\* significant bits whose highest bit is top.
DoubleWithTop(neg, m, top) ==
    MakeDouble(neg, ExponentBias + top, {i - top + DoubleExponentShift : i \in m \ {top}})

DoubleOf(neg, m) ==
    IF m = {} THEN (IF neg THEN SignBit ELSE {}) ELSE DoubleWithTop(neg, m, Highest(m))

\* ES5 9.4 on doubles.
ReferenceToInteger(bits) ==
    IF IsZero(bits) THEN bits
    ELSE IF IsNaN(bits) THEN {}
    ELSE IF IsInfinite(bits) THEN bits
    ELSE DoubleOf(IsNegative(bits), FloorAbs(bits))

\* Some doubles by name.
MinusOne == MakeDouble(TRUE, ExponentBias, {})
TwoPow32MinusHalf == MakeDouble(FALSE, ExponentBias + 31, Run(20, 52))
JustAboveTwo == MakeDouble(FALSE, ExponentBias + 1, {20})
JustBelowMinusTwo == MakeDouble(TRUE, ExponentBias + 1, {20})

(* ------------------------------ the claims ----------------------------- *)

\* C1: ToUint32 / ToUint64 return 0 for NaN and the infinities, and otherwise
\* the value in [0, 2^W) congruent modulo 2^W to sign(d) * floor(|d|).
C1_UnsignedIsCongruent ==
    fn \in Unsigned =>
        /\ ret.kind = "value"
        /\ IF IsFinite(arg)
           THEN Congruent(WidthOf(fn), ret.v, IsNegative(arg), FloorAbs(arg))
           ELSE ret.v = {}

\* ToUint32(4294967295.5) = 4294967295
C1_Witness == fn = "ToUint32" /\ arg = TwoPow32MinusHalf /\ ret = Value(Word(32))

\* C2: the portable ToInt32 / ToInt64 return u when u <= 2^(W-1) - 1 and
\* u - 2^W otherwise, u being the result of ToUintWidth; the result lies in
\* [-2^(W-1), 2^(W-1) - 1].
C2_SignedIsReinterpretedUnsigned ==
    fn \in Signed =>
        /\ ret.kind = "value"
        /\ InSignedRange(WidthOf(fn), ret.v)
        /\ ret.v = Reinterpreted(WidthOf(fn), trace.int.u)

\* C3: ToInteger keeps a zero (with its sign) and an infinity, maps NaN to +0
\* and truncates any other double toward zero.
C3_ToIntegerIsReference == fn = "ToInteger" => ret = Value(ReferenceToInteger(arg))

\* ToInteger of a double just below -2 is -2.0
C3_Witness ==
    /\ fn = "ToInteger"
    /\ arg = JustBelowMinusTwo
    /\ ret = Value(MakeDouble(TRUE, ExponentBias + 1, {}))

\* C4: for a finite d, ToInteger(ToInteger(d)) = ToInteger(d), bit for bit.
C4_ToIntegerIdempotent == fn = "ToIntegerAgain" /\ IsFinite(d) => ret = Value(arg)

\* the second call, on the result -0 of ToInteger(-0.5)
C4_Witness ==
    /\ fn = "ToIntegerAgain"
    /\ d = MakeDouble(TRUE, ExponentBias - 1, {})
    /\ arg = SignBit
    /\ ret = Value(SignBit)

\* C5: for a finite d whose truncation fits int32, ToInt64(d) and ToInt32(d)
\* both equal the truncation of d (so they equal one another).
C5_Int64AgreesWithInt32 ==
    fn \in Signed /\ FitsInt32(arg) => ret = Value(Truncation(arg))

\* C6: the ARM assembly returns the int32 the portable ToIntWidth<int32_t>
\* returns, for every bit pattern.
C6_ArmIsPortable ==
    /\ fn = "ToInt32" => ret = Value(ZOfSigned(RegBits, ToInt32Arm(arg)))
    /\ fn = "ToInt32Arm" => ToIntWidthOutcomes(32, arg) = {ret}

\* C7: ToUintWidth executes no operation on an invalid operand (SafeCast of a
\* negative, a 64-bit shift outside 1..63 resp. 0..52, a W-bit shift of 1 by W
\* or more), and always returns a value.
C7_OperandsValid ==
    fn \in Unsigned \cup Signed =>
        /\ \A e \in trace.ops.safecast : e >= 0
        /\ trace.ops.shl \subseteq 1 .. 63
        /\ trace.ops.shr \subseteq 0 .. 52
        /\ trace.ops.one \subseteq Word(WidthOf(fn))
        /\ fn \in Unsigned => ret.kind = "value"

\* the largest left shift: 2^115 converted to 64 bits
C7_Witness == fn = "ToUint64" /\ trace.ops.shl = {63} /\ trace.ops.one = {}

\* C8: for u > MaxValue every step of (MinValue + cast(u - MaxValue)) - 1 is
\* representable in the signed W-bit type.
C8_StepsRepresentable ==
    fn \in Signed /\ trace.int.large =>
        /\ InSignedRange(WidthOf(fn), trace.int.diff)
        /\ InSignedRange(WidthOf(fn), trace.int.sum)
        /\ InSignedRange(WidthOf(fn), trace.int.fin)

\* C9, as claimed: ToInteger of a finite nonzero d is floor(d) if d < 0 and
\* ceil(d) otherwise.
C9_FloorIfNegativeElseCeil ==
    fn = "ToInteger" /\ IsFinite(arg) /\ ~IsZero(arg) =>
        ret = Value(IF IsNegative(arg) THEN Floor(arg) ELSE Ceil(arg))

\* C9, amended: ToInteger of a finite nonzero d is ceil(d) if d < 0 and
\* floor(d) otherwise.
C9_CeilIfNegativeElseFloor ==
    fn = "ToInteger" /\ IsFinite(arg) /\ ~IsZero(arg) =>
        ret = Value(IF IsNegative(arg) THEN Ceil(arg) ELSE Floor(arg))

\* ToInteger of a double just above 2 is 2.0, and its ceil is 3.0
C9_Witness ==
    /\ fn = "ToInteger"
    /\ arg = JustAboveTwo
    /\ ret = Value(MakeDouble(FALSE, ExponentBias + 1, {}))
    /\ Ceil(arg) = MakeDouble(FALSE, ExponentBias + 1, {51})

\* C10: ToUint64(d) mod 2^32 = ToUint32(d), the low 32 bits of ToInt64(d) are
\* the bits of the portable ToInt32(d), and for decoded exponents in [84, 116)
\* the low 32 bits of the 64-bit results are 0.
C10_WidthsAgreeModulo ==
    /\ fn = "ToUint64" => Trunc(32, ret.v) = ToUintWidth(32, arg)
    /\ fn = "ToInt64" =>
           /\ ret.kind = "value"
           /\ \A o \in ToIntWidthOutcomes(32, arg) :
                  o.kind = "value" /\ Trunc(32, o.v) = Trunc(32, ret.v)
    /\ fn \in {"ToUint64", "ToInt64"} /\ DecodedExponent(arg) \in 84 .. 115 =>
           ret.kind = "value" /\ Trunc(32, ret.v) = {}

(* --------------- what holds of the builds that do not trap ------------- *)

\* A call traps only where u is all ones (the truncation of d is congruent
\* to -1), and there some build does.
TrapsOnlyAtAllOnes == ret.kind = "trap" => trace.int.u = Word(WidthOf(fn))

\* At d = -1.0, for both widths, u - MaxValue is 2^(W-1) and the sum
\* MinValue + cast(u - MaxValue) is outside the signed range.
OverflowAtMinusOne ==
    fn \in Signed /\ arg = MinusOne =>
        /\ trace.int.large
        /\ trace.int.diff = {WidthOf(fn) - 1}
        /\ ~InSignedRange(WidthOf(fn), trace.int.sum)

\* Whatever a signed call returns is the reinterpretation of u.
ReturnedIsReinterpretedUnsigned ==
    fn \in Signed /\ ret.kind = "value" =>
        /\ InSignedRange(WidthOf(fn), ret.v)
        /\ ret.v = Reinterpreted(WidthOf(fn), trace.int.u)

\* The assembly returns what the wrapping portable build returns.
ArmIsWrappingPortable ==
    fn = "ToInt32Arm" => ret.v = ToIntWidthRun(32, arg).ret

\* The assembly returns the int32 congruent to the truncation of d.
ArmIsCongruent ==
    fn = "ToInt32Arm" /\ IsFinite(arg) =>
        Congruent(32, Trunc(32, ret.v), IsNegative(arg), FloorAbs(arg))

\* Whatever a signed call returns for a d that fits int32 is its truncation.
ReturnedIsTruncation ==
    fn \in Signed /\ FitsInt32(arg) /\ ret.kind = "value" => ret.v = Truncation(arg)

\* Whatever the signed calls return agrees in the low 32 bits.
ReturnedAgreeModulo ==
    fn = "ToInt64" /\ ret.kind = "value" =>
        Trunc(32, ret.v) = Trunc(32, ToIntWidthRun(32, arg).ret)

====
